---- MODULE Spec2Model ----
(***************************************************************************)
(* Model of the mac-mips assembly formatter (src/src/formatter.rs).        *)
(*                                                                         *)
(* Text is a sequence of one-character strings.  Option<String> is a      *)
(* record [some, val].  Rust byte indices are 0-based; the model's         *)
(* indices are 1-based and 0 stands for None.                              *)
(***************************************************************************)
EXTENDS Integers, Sequences, FiniteSets, TLC

VARIABLES
    contents,    \* format: the input String
    pc,          \* format: position in the pipeline
    raw_lines,   \* format: contents.lines().map(trim)
    sections,    \* format: Vec<Section>
    blocks,      \* format: Vec<LineBlock>
    out_lines,   \* format: lines returned by consume_line_blocks
    output,      \* format: the returned String
    code,        \* tokenise_line: its argument
    rest,        \* tokenise_line: characters of code.chars() not yet received
    state,       \* tokenise_line: TokenisationState
    tokens,      \* tokenise_line: Vec<CodeToken>
    formatted,   \* format_code: the returned String
    lpc          \* position in tokenise_line / format_code

vars == <<contents, pc, raw_lines, sections, blocks, out_lines, output,
          code, rest, state, tokens, formatted, lpc>>

fileVars == <<contents, pc, raw_lines, sections, blocks, out_lines, output>>
lineVars == <<code, rest, state, tokens, formatted, lpc>>

----------------------------------------------------------------------------
(* Bounds of the model *)

\* longest code string handed to tokenise_line in SpecLine
MaxCodeLen == 4
\* most lines of a vocabulary file in Spec
MaxLines == 3
\* longest line of a single-line file over LineAlphabet in Spec
MaxLineLen == 4

----------------------------------------------------------------------------
(* Text helpers (Rust str methods) *)

Strings(A, n) == UNION {[1..k -> A] : k \in 0..n}

SetMin(S) == CHOOSE x \in S : \A y \in S : x <= y
SetMax(S) == CHOOSE x \in S : \A y \in S : y <= x

is_whitespace(c) == c \in {" ", "\t", "\n"}

trim(s) ==
    LET keep == {i \in 1..Len(s) : ~is_whitespace(s[i])}
    IN  IF keep = {} THEN <<>> ELSE SubSeq(s, SetMin(keep), SetMax(keep))

\* str::find(char): 1-based index of the first occurrence, 0 for None
find(s, c) ==
    LET at == {i \in 1..Len(s) : s[i] = c}
    IN  IF at = {} THEN 0 ELSE SetMin(at)

starts_with(s, p) == Len(s) >= Len(p) /\ SubSeq(s, 1, Len(p)) = p

ends_with(s, c) == Len(s) > 0 /\ s[Len(s)] = c

None == [some |-> FALSE, val |-> <<>>]
Some(v) == [some |-> TRUE, val |-> v]

----------------------------------------------------------------------------
(* mod line: tokens *)

Item(s) == [kind |-> "Item", text |-> s]
Literal(s) == [kind |-> "Literal", text |-> s]
Comma == [kind |-> "Comma", text |-> <<>>]
Colon == [kind |-> "Colon", text |-> <<>>]
ParenOpen == [kind |-> "ParenOpen", text |-> <<>>]
ParenClose == [kind |-> "ParenClose", text |-> <<>>]

Waiting == [st |-> "Waiting", cur |-> <<>>]
Token(cur) == [st |-> "Token", cur |-> cur]
StringLiteral(cur) == [st |-> "StringLiteral", cur |-> cur]

Punctuation == {",", ":", "(", ")"}

CodeToken_to_string(t) ==
    CASE t.kind = "Comma" -> <<",">>
      [] t.kind = "Colon" -> <<":">>
      [] t.kind = "ParenOpen" -> <<"(">>
      [] t.kind = "ParenClose" -> <<")">>
      [] t.kind = "Item" -> t.text
      [] t.kind = "Literal" -> <<"\"">> \o t.text \o <<"\"">>
      [] OTHER -> <<>>

\* the `_ => panic!()` arm yields the token Panicked
Panicked == [kind |-> "Panicked", text |-> <<>>]

code_token_from_char(c) ==
    CASE c = "," -> Comma
      [] c = ":" -> Colon
      [] c = "(" -> ParenOpen
      [] c = ")" -> ParenClose
      [] OTHER -> Panicked

\* mutant: a quote closes a literal whatever precedes it
receive_next_char_any_quote(s, c, toks) ==
    CASE s.st = "Waiting" /\ c \in Punctuation ->
            [state |-> Waiting, tokens |-> Append(toks, code_token_from_char(c))]
      [] s.st = "Waiting" /\ c \notin Punctuation /\ is_whitespace(c) ->
            [state |-> Waiting, tokens |-> toks]
      [] s.st = "Waiting" /\ c \notin Punctuation /\ ~is_whitespace(c) /\ c = "\"" ->
            [state |-> StringLiteral(<<>>), tokens |-> toks]
      [] s.st = "Waiting" /\ c \notin Punctuation /\ ~is_whitespace(c) /\ c # "\"" ->
            [state |-> Token(<<c>>), tokens |-> toks]
      [] s.st = "StringLiteral" /\ c = "\"" ->
            [state |-> Waiting, tokens |-> Append(toks, Literal(s.cur))]
      [] s.st = "StringLiteral" /\ c # "\"" ->
            [state |-> StringLiteral(Append(s.cur, c)), tokens |-> toks]
      [] s.st = "Token" /\ is_whitespace(c) ->
            [state |-> Waiting, tokens |-> Append(toks, Item(s.cur))]
      [] s.st = "Token" /\ ~is_whitespace(c) /\ c \in Punctuation ->
            [state |-> Waiting,
             tokens |-> Append(Append(toks, Item(s.cur)), code_token_from_char(c))]
      [] s.st = "Token" /\ ~is_whitespace(c) /\ c \notin Punctuation /\ c = "\"" ->
            [state |-> StringLiteral(<<>>), tokens |-> Append(toks, Item(s.cur))]
      [] s.st = "Token" /\ ~is_whitespace(c) /\ c \notin Punctuation /\ c # "\"" ->
            [state |-> Token(Append(s.cur, c)), tokens |-> toks]

\* one step of the tokeniser: the new state and the token vector
receive_next_char(s, c, toks) ==
    CASE s.st = "Waiting" /\ c \in Punctuation ->
            [state |-> Waiting, tokens |-> Append(toks, code_token_from_char(c))]
      [] s.st = "Waiting" /\ c \notin Punctuation /\ is_whitespace(c) ->
            [state |-> Waiting, tokens |-> toks]
      [] s.st = "Waiting" /\ c \notin Punctuation /\ ~is_whitespace(c) /\ c = "\"" ->
            [state |-> StringLiteral(<<>>), tokens |-> toks]
      [] s.st = "Waiting" /\ c \notin Punctuation /\ ~is_whitespace(c) /\ c # "\"" ->
            [state |-> Token(<<c>>), tokens |-> toks]
      [] s.st = "StringLiteral" /\ c = "\"" /\ ~ends_with(s.cur, "\\") ->
            [state |-> Waiting, tokens |-> Append(toks, Literal(s.cur))]
      [] s.st = "StringLiteral" /\ ~(c = "\"" /\ ~ends_with(s.cur, "\\")) ->
            [state |-> StringLiteral(Append(s.cur, c)), tokens |-> toks]
      [] s.st = "Token" /\ is_whitespace(c) ->
            [state |-> Waiting, tokens |-> Append(toks, Item(s.cur))]
      [] s.st = "Token" /\ ~is_whitespace(c) /\ c \in Punctuation ->
            [state |-> Waiting,
             tokens |-> Append(Append(toks, Item(s.cur)), code_token_from_char(c))]
      [] s.st = "Token" /\ ~is_whitespace(c) /\ c \notin Punctuation /\ c = "\"" ->
            [state |-> StringLiteral(<<>>), tokens |-> Append(toks, Item(s.cur))]
      [] s.st = "Token" /\ ~is_whitespace(c) /\ c \notin Punctuation /\ c # "\"" ->
            [state |-> Token(Append(s.cur, c)), tokens |-> toks]

\* the match on the final state, lines 54-58
flush(s, toks) ==
    CASE s.st = "Waiting" -> toks
      [] s.st = "Token" -> Append(toks, Item(s.cur))
      [] s.st = "StringLiteral" -> Append(toks, Literal(s.cur))

RECURSIVE tokenise_from(_, _, _, _)
tokenise_from(str, i, s, toks) ==
    IF i > Len(str) THEN flush(s, toks)
    ELSE LET r == receive_next_char(s, str[i], toks)
         IN  tokenise_from(str, i + 1, r.state, r.tokens)

tokenise_line(str) == tokenise_from(str, 1, Waiting, <<>>)

\* mutant: the arm for a comma before an open parenthesis is missing and a
\* colon on the left does not count
should_be_spaced_narrow(left, right) ==
    /\ left.kind \in {"Item", "Literal", "Comma"}
    /\ right.kind \in {"Item", "Literal"}

should_be_spaced(left, right) ==
    \/ /\ left.kind \in {"Item", "Literal", "Comma", "Colon"}
       /\ right.kind \in {"Item", "Literal"}
    \/ /\ left.kind = "Comma"
       /\ right.kind = "ParenOpen"

RECURSIVE render_from(_, _, _)
\* the loop over tokens.windows(2), lines 152-157; i is the index of pair[1]
render_from(toks, i, acc) ==
    IF i > Len(toks) THEN acc
    ELSE render_from(toks, i + 1,
            acc \o (IF should_be_spaced(toks[i - 1], toks[i]) THEN <<" ">> ELSE <<>>)
                \o CodeToken_to_string(toks[i]))

render_tokens(toks) ==
    IF toks = <<>> THEN <<>>
    ELSE render_from(toks, 2, CodeToken_to_string(toks[1]))

format_code(str) == render_tokens(tokenise_line(str))

----------------------------------------------------------------------------
(* mod line: lines *)

CodeLine(c, m) == [code |-> c, comment |-> m]

CodeLine_parse(line) ==
    IF line = <<>> THEN CodeLine(None, None)
    ELSE LET comment_index == find(line, "#")
         IN  IF comment_index # 0
             THEN LET c == trim(SubSeq(line, 1, comment_index - 1))
                      m == trim(SubSeq(line, comment_index + 1, Len(line)))
                  IN  IF c = <<>> THEN CodeLine(None, Some(m))
                      ELSE CodeLine(Some(c), Some(m))
             ELSE CodeLine(Some(trim(line)), None)

\* Text is a sequence of UTF-8 bytes.  An ASCII byte is written as its
\* character; the two bytes of U+00E9 are the lead byte and the continuation
\* byte below.
Utf8Lead == "C3"
Utf8Cont == "A9"

\* str::is_char_boundary, for a zero-based byte index
is_char_boundary(s, index) ==
    \/ index = 0
    \/ index = Len(s)
    \/ index < Len(s) /\ s[index + 1] # Utf8Cont

\* line[1..] panics when 1 is past the end or inside a character
format_comment_panics(line) == Len(line) < 1 \/ ~is_char_boundary(line, 1)

format_comment(line) ==
    IF format_comment_panics(line) THEN <<>>
    ELSE <<"#", " ">> \o trim(SubSeq(line, 2, Len(line)))

line_format_panics(line) ==
    LET code_line == CodeLine_parse(line)
    IN  /\ ~code_line.code.some
        /\ code_line.comment.some
        /\ format_comment_panics(code_line.comment.val)

line_format(line) ==
    LET code_line == CodeLine_parse(line)
    IN  CASE code_line.code.some /\ code_line.comment.some ->
                format_code(code_line.code.val) \o <<" ", " ", "#", " ">>
                    \o code_line.comment.val
          [] code_line.code.some /\ ~code_line.comment.some ->
                format_code(code_line.code.val)
          [] ~code_line.code.some /\ code_line.comment.some ->
                format_comment(code_line.comment.val)
          [] ~code_line.code.some /\ ~code_line.comment.some -> <<>>

\* mutant: the position of `#` is not looked at, any line with a colon splits
possibly_split_line_any_colon(line) ==
    LET colon_i == find(line, ":")
    IN  IF colon_i # 0
        THEN <<SubSeq(line, 1, colon_i), SubSeq(line, colon_i + 1, Len(line))>>
        ELSE <<line>>

\* SplitLine::One is <<line>>, SplitLine::Two is <<part1, part2>>
possibly_split_line(line) ==
    LET colon_i == find(line, ":")
        comment_i == find(line, "#")
        two == <<SubSeq(line, 1, colon_i), SubSeq(line, colon_i + 1, Len(line))>>
    IN  IF colon_i # 0
        THEN IF comment_i # 0
             THEN IF colon_i < comment_i THEN two ELSE <<line>>
             ELSE two
        ELSE <<line>>

\* The (code, comment) pair of a line of a code block.  The function is called
\* at line 397 and defined nowhere in the source; it follows the Line
\* Classifier (spec 4.1, 3): code left of the first '#', comment right of it,
\* both trimmed, an absent part empty.
split_code_from_comment(l) ==
    LET code_line == CodeLine_parse(l)
    IN  <<code_line.code.val, code_line.comment.val>>

----------------------------------------------------------------------------
(* Sections and chunks *)

DotText == <<".", "t", "e", "x", "t">>
DotData == <<".", "d", "a", "t", "a">>
DotGlobl == <<".", "g", "l", "o", "b", "l">>
DotAlign == <<".", "a", "l", "i", "g", "n">>

Chunk(k, ls) == [kind |-> k, lines |-> ls]
ChunkSpace == Chunk("Space", <<>>)
\* Chunk::GlobDec is a unit variant: it holds no line
ChunkGlobDec == Chunk("GlobDec", <<>>)

Section_new(line, dir) ==
    [dir |-> dir,
     dir_line |-> IF line = <<>> THEN None ELSE Some(line_format(line)),
     lines |-> <<>>,
     chunks |-> None]

\* mutant: the Data arm is missing, every section splits its lines
parse_sections_step_split_all(secs, line) ==
    CASE starts_with(line, DotText) -> Append(secs, Section_new(line, "Text"))
      [] ~starts_with(line, DotText) /\ starts_with(line, DotData) ->
            Append(secs, Section_new(line, "Data"))
      [] OTHER -> [secs EXCEPT ![Len(secs)].lines = @ \o possibly_split_line(line)]

\* one iteration of the loop of parse_sections
parse_sections_step(secs, line) ==
    LET cur_section == secs[Len(secs)]
    IN  CASE starts_with(line, DotText) -> Append(secs, Section_new(line, "Text"))
          [] ~starts_with(line, DotText) /\ starts_with(line, DotData) ->
                Append(secs, Section_new(line, "Data"))
          [] ~starts_with(line, DotText) /\ ~starts_with(line, DotData)
                /\ cur_section.dir = "Data" ->
                [secs EXCEPT ![Len(secs)].lines = Append(@, line)]
          [] ~starts_with(line, DotText) /\ ~starts_with(line, DotData)
                /\ cur_section.dir = "Text" ->
                [secs EXCEPT ![Len(secs)].lines = @ \o possibly_split_line(line)]

RECURSIVE parse_sections_from(_, _, _)
parse_sections_from(lines, i, secs) ==
    IF i > Len(lines) THEN secs
    ELSE parse_sections_from(lines, i + 1, parse_sections_step(secs, lines[i]))

parse_sections(lines) ==
    parse_sections_from(lines, 1, <<Section_new(<<>>, "Text")>>)

\* mutant: the arm for a blank line after a Space chunk is missing
parse_chunks_step_every_blank(chunks, dir, line) ==
    LET cur_chunk == chunks[Len(chunks)]
        push(c) == Append(chunks, c)
        extend == [chunks EXCEPT ![Len(chunks)].lines = Append(@, line)]
    IN  CASE line = <<>> -> push(ChunkSpace)
          [] line # <<>> /\ starts_with(line, DotGlobl) -> push(ChunkGlobDec)
          [] line # <<>> /\ ~starts_with(line, DotGlobl) /\ starts_with(line, <<"#">>) ->
                IF cur_chunk.kind = "Comment" THEN extend
                ELSE push(Chunk("Comment", <<line>>))
          [] line # <<>> /\ ~starts_with(line, DotGlobl) /\ ~starts_with(line, <<"#">>)
                /\ dir = "Data" /\ starts_with(line, DotAlign) ->
                push(Chunk("Modifier", <<line>>))
          [] line # <<>> /\ ~starts_with(line, DotGlobl) /\ ~starts_with(line, <<"#">>)
                /\ dir = "Text" /\ ends_with(line, ":") ->
                push(Chunk("Modifier", <<line>>))
          [] OTHER ->
                IF cur_chunk.kind = "Code" THEN extend
                ELSE push(Chunk("Code", <<line>>))

\* one iteration of the loop of parse_chunks
parse_chunks_step(chunks, dir, line) ==
    LET cur_chunk == chunks[Len(chunks)]
        push(c) == Append(chunks, c)
        extend == [chunks EXCEPT ![Len(chunks)].lines = Append(@, line)]
    IN  CASE cur_chunk.kind = "Space" /\ line = <<>> -> chunks
          [] cur_chunk.kind # "Space" /\ line = <<>> -> push(ChunkSpace)
          [] line # <<>> /\ starts_with(line, DotGlobl) -> push(ChunkGlobDec)
          [] line # <<>> /\ ~starts_with(line, DotGlobl) /\ starts_with(line, <<"#">>) ->
                IF cur_chunk.kind = "Comment" THEN extend
                ELSE push(Chunk("Comment", <<line>>))
          [] line # <<>> /\ ~starts_with(line, DotGlobl) /\ ~starts_with(line, <<"#">>)
                /\ dir = "Data" /\ starts_with(line, DotAlign) ->
                push(Chunk("Modifier", <<line>>))
          [] line # <<>> /\ ~starts_with(line, DotGlobl) /\ ~starts_with(line, <<"#">>)
                /\ dir = "Text" /\ ends_with(line, ":") ->
                push(Chunk("Modifier", <<line>>))
          [] OTHER ->
                IF cur_chunk.kind = "Code" THEN extend
                ELSE push(Chunk("Code", <<line>>))

RECURSIVE parse_chunks_from(_, _, _, _)
parse_chunks_from(lines, dir, i, chunks) ==
    IF i > Len(lines) THEN chunks
    ELSE parse_chunks_from(lines, dir, i + 1, parse_chunks_step(chunks, dir, lines[i]))

parse_chunks(section) ==
    [section EXCEPT !.chunks =
        Some(parse_chunks_from(section.lines, section.dir, 1, <<ChunkSpace>>))]

----------------------------------------------------------------------------
(* Line blocks *)

LineBlock(k, ls) == [kind |-> k, lines |-> ls]
BlockSpace == LineBlock("Space", <<>>)

\* The LineBlock of a chunk.  format() reads `blocks`, which nothing in the
\* source builds from the sections; the kinds follow the LineBlock enum and
\* the chunk roles of spec 4.4.  A GlobDec chunk holds no line, so no block
\* can carry one.
chunk_block(dir, chunk) ==
    CASE chunk.kind = "Space" -> <<BlockSpace>>
      [] chunk.kind = "Modifier" ->
            <<LineBlock(IF dir = "Text" THEN "ProcedureDenoter" ELSE "DataModifier",
                        chunk.lines)>>
      [] chunk.kind = "Code" ->
            <<LineBlock(IF dir = "Text" THEN "Code" ELSE "Data", chunk.lines)>>
      [] chunk.kind = "Comment" -> <<LineBlock("Comment", chunk.lines)>>
      [] chunk.kind = "GlobDec" -> <<>>

RECURSIVE chunk_blocks_from(_, _, _)
chunk_blocks_from(dir, chunks, i) ==
    IF i > Len(chunks) THEN <<>>
    ELSE chunk_block(dir, chunks[i]) \o chunk_blocks_from(dir, chunks, i + 1)

section_blocks(section) ==
    (IF section.dir_line.some
     THEN <<LineBlock("SectionDenoter", <<section.dir_line.val>>)>>
     ELSE <<>>)
    \o chunk_blocks_from(section.dir, section.chunks.val, 1)

RECURSIVE sections_blocks_from(_, _)
sections_blocks_from(secs, i) ==
    IF i > Len(secs) THEN <<>>
    ELSE section_blocks(secs[i]) \o sections_blocks_from(secs, i + 1)

sections_blocks(secs) == sections_blocks_from(secs, 1)

----------------------------------------------------------------------------
(* Comment alignment and block formatting *)

MAX_COMMENT_DISPARITY == 10

SeqMax(S) == IF S = {} THEN 0 ELSE SetMax(S)

\* mutant: the shortest commented line stands for the commented lines
comment_start_index_min(line_pairs) ==
    LET commented == {j \in 1..Len(line_pairs) : line_pairs[j][2] # <<>>}
        max_length_all ==
            SeqMax({Len(line_pairs[i][1]) : i \in 1..Len(line_pairs)})
        max_length_comments ==
            IF commented = {} THEN 0
            ELSE SetMin({Len(line_pairs[i][1]) : i \in commented})
    IN  IF max_length_all - max_length_comments >= MAX_COMMENT_DISPARITY
        THEN max_length_comments + 2
        ELSE max_length_all + 2

\* mutant: the disparity test is strict
comment_start_index_strict(line_pairs) ==
    LET max_length_all ==
            SeqMax({Len(line_pairs[i][1]) : i \in 1..Len(line_pairs)})
        max_length_comments ==
            SeqMax({Len(line_pairs[i][1]) :
                        i \in {j \in 1..Len(line_pairs) : line_pairs[j][2] # <<>>}})
    IN  IF max_length_all - max_length_comments > MAX_COMMENT_DISPARITY
        THEN max_length_comments + 2
        ELSE max_length_all + 2

\* line_pairs: sequence of <<code, comment>>
comment_start_index(line_pairs) ==
    LET max_length_all ==
            SeqMax({Len(line_pairs[i][1]) : i \in 1..Len(line_pairs)})
        max_length_comments ==
            SeqMax({Len(line_pairs[i][1]) :
                        i \in {j \in 1..Len(line_pairs) : line_pairs[j][2] # <<>>}})
    IN  IF max_length_all - max_length_comments >= MAX_COMMENT_DISPARITY
        THEN max_length_comments + 2
        ELSE max_length_all + 2

Spaces(n) == [i \in 1..n |-> " "]

code_block_pairs(lines) ==
    [i \in 1..Len(lines) |->
        LET p == split_code_from_comment(lines[i])
        IN  <<format_code(p[1]), p[2]>>]

\* comment_index - code.len() underflows
format_code_block_panics(lines) ==
    LET block == code_block_pairs(lines)
        comment_index == comment_start_index(block)
    IN  \E i \in 1..Len(block) :
            block[i][2] # <<>> /\ comment_index < Len(block[i][1])

format_code_block(lines) ==
    LET block == code_block_pairs(lines)
        comment_index == comment_start_index(block)
    IN  [i \in 1..Len(block) |->
            IF block[i][2] = <<>> THEN block[i][1]
            ELSE block[i][1] \o Spaces(comment_index - Len(block[i][1]))
                    \o <<"#", " ">> \o block[i][2]]

format_line_block_panics(block) ==
    CASE block.kind \in {"ProcedureDenoter", "SectionDenoter", "DataModifier"} ->
            line_format_panics(block.lines[1])
      [] block.kind \in {"Code", "Data"} -> format_code_block_panics(block.lines)
      [] block.kind = "Comment" ->
            \E i \in 1..Len(block.lines) : format_comment_panics(block.lines[i])
      [] OTHER -> FALSE

format_line_block(block) ==
    CASE block.kind = "Space" -> BlockSpace
      [] block.kind \in {"ProcedureDenoter", "SectionDenoter", "DataModifier"} ->
            LineBlock(block.kind, <<line_format(block.lines[1])>>)
      [] block.kind \in {"Code", "Data"} ->
            LineBlock(block.kind, format_code_block(block.lines))
      [] block.kind = "Comment" ->
            LineBlock("Comment",
                      [i \in 1..Len(block.lines) |-> format_comment(block.lines[i])])

----------------------------------------------------------------------------
(* Indentation *)

indent_block(block) ==
    IF block.kind \in {"Code", "Comment"}
    THEN [block EXCEPT !.lines = [i \in 1..Len(block.lines) |-> <<"\t">> \o block.lines[i]]]
    ELSE block

\* mutant: a `.text` denoter opens no new text chunk
RECURSIVE text_chunks_from_joined(_, _, _, _)
text_chunks_from_joined(bs, i, in_data_chunk, text_chunks) ==
    IF i > Len(bs) THEN text_chunks
    ELSE LET block == bs[i]
             isDen == block.kind = "SectionDenoter"
         IN  CASE isDen /\ starts_with(block.lines[1], DotData) ->
                    text_chunks_from_joined(bs, i + 1, TRUE, text_chunks)
               [] isDen /\ ~starts_with(block.lines[1], DotData)
                        /\ starts_with(block.lines[1], DotText) ->
                    text_chunks_from_joined(bs, i + 1, FALSE, text_chunks)
               [] OTHER ->
                    IF ~in_data_chunk
                    THEN text_chunks_from_joined(bs, i + 1, in_data_chunk,
                            [text_chunks EXCEPT ![Len(text_chunks)] = Append(@, i)])
                    ELSE text_chunks_from_joined(bs, i + 1, in_data_chunk, text_chunks)

\* first loop of indent_blocks: text_chunks as sequences of indices into blocks
RECURSIVE text_chunks_from(_, _, _, _)
text_chunks_from(bs, i, in_data_chunk, text_chunks) ==
    IF i > Len(bs) THEN text_chunks
    ELSE LET block == bs[i]
             isDen == block.kind = "SectionDenoter"
         IN  CASE isDen /\ starts_with(block.lines[1], DotData) ->
                    text_chunks_from(bs, i + 1, TRUE, text_chunks)
               [] isDen /\ ~starts_with(block.lines[1], DotData)
                        /\ starts_with(block.lines[1], DotText) ->
                    text_chunks_from(bs, i + 1, FALSE, Append(text_chunks, <<>>))
               [] OTHER ->
                    IF ~in_data_chunk
                    THEN text_chunks_from(bs, i + 1, in_data_chunk,
                            [text_chunks EXCEPT ![Len(text_chunks)] = Append(@, i)])
                    ELSE text_chunks_from(bs, i + 1, in_data_chunk, text_chunks)

\* mutant: a ProcedureDenoter does not reset should_indent
RECURSIVE indent_walk_noreset(_, _, _, _, _)
indent_walk_noreset(bs, chunk, k, first, should_indent) ==
    IF k <= first THEN {}
    ELSE LET block == bs[chunk[k]]
         IN  CASE block.kind = "Code" ->
                    {chunk[k]} \cup indent_walk_noreset(bs, chunk, k - 1, first, TRUE)
               [] block.kind = "Comment" ->
                    (IF should_indent THEN {chunk[k]} ELSE {})
                        \cup indent_walk_noreset(bs, chunk, k - 1, first, should_indent)
               [] OTHER -> indent_walk_noreset(bs, chunk, k - 1, first, should_indent)

\* the reversed walk over chunk.skip(index + 1): the indices of the blocks
\* indent_block is called on.  k runs from the last position down.
RECURSIVE indent_walk(_, _, _, _, _)
indent_walk(bs, chunk, k, first, should_indent) ==
    IF k <= first THEN {}
    ELSE LET block == bs[chunk[k]]
         IN  CASE block.kind = "ProcedureDenoter" ->
                    indent_walk(bs, chunk, k - 1, first, FALSE)
               [] block.kind = "Code" ->
                    {chunk[k]} \cup indent_walk(bs, chunk, k - 1, first, TRUE)
               [] block.kind = "Comment" ->
                    (IF should_indent THEN {chunk[k]} ELSE {})
                        \cup indent_walk(bs, chunk, k - 1, first, should_indent)
               [] OTHER -> indent_walk(bs, chunk, k - 1, first, should_indent)

\* mutant: should_indent starts true
chunk_indented_eager(bs, chunk) ==
    LET procs == {k \in 1..Len(chunk) : bs[chunk[k]].kind = "ProcedureDenoter"}
    IN  IF procs = {} THEN {}
        ELSE indent_walk(bs, chunk, Len(chunk), SetMin(procs), TRUE)

\* the blocks of one text chunk that get indented
chunk_indented(bs, chunk) ==
    LET procs == {k \in 1..Len(chunk) : bs[chunk[k]].kind = "ProcedureDenoter"}
    IN  IF procs = {} THEN {}
        ELSE indent_walk(bs, chunk, Len(chunk), SetMin(procs), FALSE)

indent_blocks(bs) ==
    LET text_chunks == text_chunks_from(bs, 1, FALSE, <<<<>>>>)
        indented == UNION {chunk_indented(bs, text_chunks[c]) : c \in 1..Len(text_chunks)}
    IN  [i \in 1..Len(bs) |-> IF i \in indented THEN indent_block(bs[i]) ELSE bs[i]]

----------------------------------------------------------------------------
(* Compilation of the blocks into lines *)

\* mutant: a Space block emits a blank line in every state but Preparing
consume_step_space_blank(acc, block) ==
    LET st == acc.state
        out == acc.out_lines
    IN  CASE block.kind = "SectionDenoter" /\ st \in {"AfterProcedure", "AfterDataModifer"} ->
                [state |-> "Preparing",
                 out_lines |-> out \o <<<<>>, block.lines[1], <<>>>>]
          [] block.kind = "SectionDenoter" /\ st \notin {"AfterProcedure", "AfterDataModifer"} ->
                [state |-> "Preparing", out_lines |-> out \o <<block.lines[1], <<>>>>]
          [] block.kind = "ProcedureDenoter" ->
                [state |-> "AfterProcedure", out_lines |-> Append(out, block.lines[1])]
          [] block.kind \in {"Code", "Data"} ->
                [state |-> "Preparing", out_lines |-> Append(out \o block.lines, <<>>)]
          [] block.kind = "Comment" ->
                [state |-> "AfterComment", out_lines |-> out \o block.lines]
          [] block.kind = "DataModifier" ->
                [state |-> "AfterDataModifer", out_lines |-> Append(out, block.lines[1])]
          [] block.kind = "Space" /\ st # "Preparing" ->
                [state |-> "Preparing", out_lines |-> Append(out, <<>>)]
          [] block.kind = "Space" /\ st = "Preparing" -> acc

\* one iteration of the loop of consume_line_blocks
consume_step(acc, block) ==
    LET st == acc.state
        out == acc.out_lines
    IN  CASE block.kind = "SectionDenoter" /\ st \in {"AfterProcedure", "AfterDataModifer"} ->
                [state |-> "Preparing",
                 out_lines |-> out \o <<<<>>, block.lines[1], <<>>>>]
          [] block.kind = "SectionDenoter" /\ st \notin {"AfterProcedure", "AfterDataModifer"} ->
                [state |-> "Preparing", out_lines |-> out \o <<block.lines[1], <<>>>>]
          [] block.kind = "ProcedureDenoter" ->
                [state |-> "AfterProcedure", out_lines |-> Append(out, block.lines[1])]
          [] block.kind \in {"Code", "Data"} ->
                [state |-> "Preparing", out_lines |-> Append(out \o block.lines, <<>>)]
          [] block.kind = "Comment" ->
                [state |-> "AfterComment", out_lines |-> out \o block.lines]
          [] block.kind = "DataModifier" ->
                [state |-> "AfterDataModifer", out_lines |-> Append(out, block.lines[1])]
          [] block.kind = "Space" /\ st = "AfterComment" ->
                [state |-> "Preparing", out_lines |-> Append(out, <<>>)]
          [] block.kind = "Space" /\ st # "AfterComment" -> acc

RECURSIVE consume_from(_, _, _)
consume_from(bs, i, acc) ==
    IF i > Len(bs) THEN acc
    ELSE consume_from(bs, i + 1, consume_step(acc, bs[i]))

\* mutant: the match on the final state is left out
consume_line_blocks_noflush(bs) ==
    consume_from(bs, 1, [state |-> "Preparing", out_lines |-> <<>>]).out_lines

consume_line_blocks(bs) ==
    LET end == consume_from(bs, 1, [state |-> "Preparing", out_lines |-> <<>>])
    IN  IF end.state = "Preparing" THEN end.out_lines
        ELSE Append(end.out_lines, <<>>)

----------------------------------------------------------------------------
(* format *)

\* str::lines(): split at "\n"; a final empty piece is no line
RECURSIVE str_lines_from(_, _, _)
str_lines_from(s, i, cur) ==
    IF i > Len(s) THEN (IF cur = <<>> THEN <<>> ELSE <<cur>>)
    ELSE IF s[i] = "\n" THEN <<cur>> \o str_lines_from(s, i + 1, <<>>)
    ELSE str_lines_from(s, i + 1, Append(cur, s[i]))

str_lines(s) == str_lines_from(s, 1, <<>>)

RECURSIVE join_from(_, _)
join_from(ls, i) ==
    IF i > Len(ls) THEN <<>>
    ELSE IF i = Len(ls) THEN ls[i]
    ELSE ls[i] \o <<"\n">> \o join_from(ls, i + 1)

\* [String]::join("\n")
join(ls) == join_from(ls, 1)

trimmed_lines(s) == LET ls == str_lines(s) IN [i \in 1..Len(ls) |-> trim(ls[i])]

chunked_sections(lines) ==
    LET secs == parse_sections(lines)
    IN  [i \in 1..Len(secs) |-> parse_chunks(secs[i])]

formatted_blocks(bs) == [i \in 1..Len(bs) |-> format_line_block(bs[i])]

blocks_panic(bs) == \E i \in 1..Len(bs) : format_line_block_panics(bs[i])

\* the lines format joins
format_lines(s) ==
    consume_line_blocks(indent_blocks(formatted_blocks(
        sections_blocks(chunked_sections(trimmed_lines(s))))))

format(s) == join(format_lines(s))

----------------------------------------------------------------------------
(* Inputs *)

\* characters of the code strings tokenised in SpecLine
CodeAlphabet == {"a", " ", ",", ":", "(", ")", "\"", "\\"}

\* characters of the single-line files of Spec
LineAlphabet == {"a", " ", ":", "#", "\""}

\* lines of the multi-line files of Spec
Vocab ==
    { <<>>,                                         \* blank line
      <<"a">>,                                      \* instruction
      <<"a", ":">>,                                 \* label
      <<"a", ":", " ", "a">>,                       \* label and instruction
      <<"a", ":", "a">>,                            \* the same without whitespace
      <<"a", ":", " ", "#", "a">>,                  \* label and comment
      <<"#", "a">>,                                 \* comment line
      <<"a", " ", "#", "a">>,                       \* instruction and comment
      <<"a", ":", " ", "a", ":", " ", "a">>,        \* two colons
      <<"\"", "a", ":", "a", "\"">>,                \* literal holding a colon
      <<"\"", "a", "\\">>,                          \* open literal ending in a backslash
      DotText,
      DotData,
      DotAlign,
      DotGlobl \o <<" ", "a">>,
      DotGlobl \o <<":", " ", "#">>,
      <<"a", "a", " ", "#", "a">>,                  \* longer instruction and comment
      [i \in 1..11 |-> "a"],                        \* long instruction, no comment
      <<Utf8Lead, Utf8Cont, " ", "#", "a">>,        \* two-byte character and comment
      <<"a", ":", " ", "#", Utf8Lead, Utf8Cont, ":">>,  \* label, then `#` text ending in a colon
      <<"#", "a", ":", " ", "#">> \o DotData,      \* comment holding `:`, `#`, `.data`
      <<"a", ":", " ">> \o DotGlobl }               \* label and global declaration

Files == UNION {[1..n -> Vocab] : n \in 0..MaxLines}

Inputs == {join(f) : f \in Files} \cup Strings(LineAlphabet, MaxLineLen)

----------------------------------------------------------------------------
(* Spec: the pipeline of format, lines 560-578 *)

lineIdle ==
    /\ code = <<>>
    /\ rest = <<>>
    /\ state = Waiting
    /\ tokens = <<>>
    /\ formatted = <<>>
    /\ lpc = "idle"

Init ==
    /\ contents \in Inputs
    /\ pc = "start"
    /\ raw_lines = <<>>
    /\ sections = <<>>
    /\ blocks = <<>>
    /\ out_lines = <<>>
    /\ output = <<>>
    /\ lineIdle

\* line 561
ReadLines ==
    /\ pc = "start"
    /\ raw_lines' = trimmed_lines(contents)
    /\ pc' = "lines"
    /\ UNCHANGED <<contents, sections, blocks, out_lines, output, lineVars>>

\* line 563
ParseSections ==
    /\ pc = "lines"
    /\ sections' = parse_sections(raw_lines)
    /\ pc' = "sections"
    /\ UNCHANGED <<contents, raw_lines, blocks, out_lines, output, lineVars>>

\* lines 564-566
ParseChunks ==
    /\ pc = "sections"
    /\ sections' = [i \in 1..Len(sections) |-> parse_chunks(sections[i])]
    /\ pc' = "chunks"
    /\ UNCHANGED <<contents, raw_lines, blocks, out_lines, output, lineVars>>

\* the binding of `blocks` read at line 571
CollectBlocks ==
    /\ pc = "chunks"
    /\ blocks' = sections_blocks(sections)
    /\ pc' = "blocks"
    /\ UNCHANGED <<contents, raw_lines, sections, out_lines, output, lineVars>>

\* lines 570-571
FormatBlocks ==
    /\ pc = "blocks"
    /\ IF blocks_panic(blocks)
       THEN pc' = "panicked" /\ UNCHANGED blocks
       ELSE pc' = "formatted" /\ blocks' = formatted_blocks(blocks)
    /\ UNCHANGED <<contents, raw_lines, sections, out_lines, output, lineVars>>

\* line 573
IndentBlocks ==
    /\ pc = "formatted"
    /\ blocks' = indent_blocks(blocks)
    /\ pc' = "indented"
    /\ UNCHANGED <<contents, raw_lines, sections, out_lines, output, lineVars>>

\* line 575
ConsumeLineBlocks ==
    /\ pc = "indented"
    /\ out_lines' = consume_line_blocks(blocks)
    /\ pc' = "compiled"
    /\ UNCHANGED <<contents, raw_lines, sections, blocks, output, lineVars>>

\* line 577
Join ==
    /\ pc = "compiled"
    /\ output' = join(out_lines)
    /\ pc' = "done"
    /\ UNCHANGED <<contents, raw_lines, sections, blocks, out_lines, lineVars>>

Next ==
    \/ ReadLines
    \/ ParseSections
    \/ ParseChunks
    \/ CollectBlocks
    \/ FormatBlocks
    \/ IndentBlocks
    \/ ConsumeLineBlocks
    \/ Join

Spec == Init /\ [][Next]_vars

----------------------------------------------------------------------------
(* SpecLine: tokenise_line and format_code on one code string *)

fileIdle ==
    /\ contents = <<>>
    /\ pc = "idle"
    /\ raw_lines = <<>>
    /\ sections = <<>>
    /\ blocks = <<>>
    /\ out_lines = <<>>
    /\ output = <<>>

InitLine ==
    /\ code \in Strings(CodeAlphabet, MaxCodeLen)
    /\ rest = code
    /\ state = Waiting
    /\ tokens = <<>>
    /\ formatted = <<>>
    /\ lpc = "chars"
    /\ fileIdle

\* lines 50-52, one character
ReceiveNextChar ==
    /\ lpc = "chars"
    /\ rest # <<>>
    /\ LET r == receive_next_char(state, Head(rest), tokens)
       IN  state' = r.state /\ tokens' = r.tokens
    /\ rest' = Tail(rest)
    /\ UNCHANGED <<code, formatted, lpc, fileVars>>

\* lines 54-60
FlushState ==
    /\ lpc = "chars"
    /\ rest = <<>>
    /\ tokens' = flush(state, tokens)
    /\ lpc' = "tokens"
    /\ UNCHANGED <<code, rest, state, formatted, fileVars>>

\* lines 146-159
FormatCode ==
    /\ lpc = "tokens"
    /\ formatted' = render_tokens(tokens)
    /\ lpc' = "formatted"
    /\ UNCHANGED <<code, rest, state, tokens, fileVars>>

NextLine ==
    \/ ReceiveNextChar
    \/ FlushState
    \/ FormatCode

SpecLine == InitLine /\ [][NextLine]_vars

----------------------------------------------------------------------------
(* Helpers of the properties *)

Last(s) == s[Len(s)]

\* sub occurs in s as a contiguous run
Contains(s, sub) ==
    \E i \in 0..(Len(s) - Len(sub)) : SubSeq(s, i + 1, i + Len(sub)) = sub

IsDirectiveLine(l) == starts_with(l, DotText) \/ starts_with(l, DotData)

\* the directive lines among raw_lines[1..k-1]
DirectivesBefore(k) == {d \in 1..(k - 1) : IsDirectiveLine(raw_lines[d])}

\* raw line k lies in a Text section: no directive precedes it, or the
\* nearest one is .text
InTextSection(k) ==
    \/ DirectivesBefore(k) = {}
    \/ starts_with(raw_lines[SetMax(DirectivesBefore(k))], DotText)

InDataSection(k) == ~InTextSection(k)

\* parse_chunks has run on every section
ChunksParsed == pc \in {"chunks", "blocks", "formatted", "indented", "compiled", "done"}

NoDoubleBlank(ls) == \A i \in 1..(Len(ls) - 1) : ~(ls[i] = <<>> /\ ls[i + 1] = <<>>)

----------------------------------------------------------------------------
(* C1 *)

\* C1: idempotence: for every input text x, format(format(x)) equals
\* format(x).
C1_Idempotence == pc = "done" => format(output) = output

----------------------------------------------------------------------------
(* C2 *)

\* C2: no double blank lines: the lines of the output of format never hold
\* two consecutive empty lines.
C2_NoDoubleBlankLines == pc = "done" => NoDoubleBlank(str_lines(output))

----------------------------------------------------------------------------
(* C3 *)

\* the SectionDenoter blocks before block i
DenotersBefore(i) == {d \in 1..(i - 1) : blocks[d].kind = "SectionDenoter"}

\* index of the SectionDenoter that opens the section of block i, 0 for the
\* implicit leading section
SectionStart(i) == IF DenotersBefore(i) = {} THEN 0 ELSE SetMax(DenotersBefore(i))

BlockInText(i) ==
    /\ blocks[i].kind # "SectionDenoter"
    /\ \/ SectionStart(i) = 0
       \/ starts_with(blocks[SectionStart(i)].lines[1], DotText)

\* some label of its section precedes block i
AfterFirstLabel(i) ==
    \E j \in (SectionStart(i) + 1)..(i - 1) : blocks[j].kind = "ProcedureDenoter"

\* a Code block follows block i before the next label and inside its section
CodeFollows(i) ==
    \E j \in (i + 1)..Len(blocks) :
        /\ blocks[j].kind = "Code"
        /\ \A m \in (i + 1)..(j - 1) :
                blocks[m].kind \notin {"ProcedureDenoter", "SectionDenoter"}

OneTab(l) == Len(l) >= 1 /\ l[1] = "\t" /\ (Len(l) >= 2 => l[2] # "\t")
NoTab(l) == ~starts_with(l, <<"\t">>)

AllLines(b, P(_)) == \A n \in 1..Len(b.lines) : P(b.lines[n])

\* C3 as stated: in a Text section every non-label line after the section's
\* first label is prefixed with exactly one tab; labels and the lines before
\* the first label carry no indentation.
C3_LabelBodyIndentation ==
    pc = "done" =>
        \A i \in 1..Len(blocks) :
            (BlockInText(i) /\ blocks[i].kind \in {"Code", "Comment", "ProcedureDenoter"}) =>
                IF blocks[i].kind # "ProcedureDenoter" /\ AfterFirstLabel(i)
                THEN AllLines(blocks[i], OneTab)
                ELSE AllLines(blocks[i], NoTab)

\* C3 amended: after the first label of a Text section every Code line is
\* prefixed with exactly one tab, and a Comment line is so prefixed exactly
\* when a Code chunk follows it before the next label or the end of the
\* section; labels, the other comments and the lines before the first label
\* carry no tab.
C3_Amended ==
    pc = "done" =>
        \A i \in 1..Len(blocks) :
            (BlockInText(i) /\ blocks[i].kind \in {"Code", "Comment", "ProcedureDenoter"}) =>
                IF /\ AfterFirstLabel(i)
                   /\ \/ blocks[i].kind = "Code"
                      \/ blocks[i].kind = "Comment" /\ CodeFollows(i)
                THEN AllLines(blocks[i], OneTab)
                ELSE AllLines(blocks[i], NoTab)

\* a label body whose Code chunk is indented while the comment block that
\* follows it, directly before the next label, is not
C3_Witness ==
    /\ pc = "done"
    /\ \E j, k, n \in 1..Len(blocks) :
        /\ j < k /\ k < n
        /\ BlockInText(j) /\ AfterFirstLabel(j)
        /\ blocks[j].kind = "Code" /\ AllLines(blocks[j], OneTab)
        /\ blocks[k].kind = "Comment" /\ AllLines(blocks[k], NoTab)
        /\ blocks[n].kind = "ProcedureDenoter"
        /\ SectionStart(n) = SectionStart(j)

----------------------------------------------------------------------------
(* C4 *)

----------------------------------------------------------------------------
(* C5 *)

\* C5: token canonicalization round trip: tokenising the output of
\* format_code gives the token sequence of the input code: same kinds, same
\* contents, same order.
C5_TokenRoundTrip == lpc = "formatted" => tokenise_line(formatted) = tokens

----------------------------------------------------------------------------
(* C6 *)

QuoteAt(l) == {i \in 1..Len(l) : l[i] = "\""}

\* the one complete literal of a line with exactly two quotes, quotes included
CompleteLiteral(l) == SubSeq(l, SetMin(QuoteAt(l)), SetMax(QuoteAt(l)))

\* C6: string literal preservation: a complete double-quoted literal of an
\* input line (one without '#') occurs byte for byte in the output.
C6_LiteralPreserved ==
    pc = "done" =>
        \A k \in 1..Len(raw_lines) :
            LET l == raw_lines[k]
            IN  (Cardinality(QuoteAt(l)) = 2 /\ find(l, "#") = 0 /\ find(l, "\\") = 0
                    /\ ~starts_with(l, DotGlobl))
                => Contains(output, CompleteLiteral(l))

----------------------------------------------------------------------------
(* C7 *)

\* the ordered pairs of token kinds the rule separates by one space
SpacedPairs ==
    ({"Item", "Literal", "Comma", "Colon"} \X {"Item", "Literal"})
        \cup {<<"Comma", "ParenOpen">>}

Gap(toks, i) == IF <<toks[i].kind, toks[i + 1].kind>> \in SpacedPairs THEN 1 ELSE 0

\* length of the text of a token
TokLen(t) ==
    CASE t.kind = "Item" -> Len(t.text)
      [] t.kind = "Literal" -> Len(t.text) + 2
      [] OTHER -> 1

RECURSIVE TokStart(_, _)
\* where token i begins in the output when the rule is followed
TokStart(toks, i) ==
    IF i = 1 THEN 1
    ELSE TokStart(toks, i - 1) + TokLen(toks[i - 1]) + Gap(toks, i - 1)

\* C7: token spacing rule: in the output of format_code every token stands at
\* the place the rule gives it: exactly one space between the pairs of
\* SpacedPairs and nothing between the others, so that no comma follows a
\* space and the output has no other character.
C7_TokenSpacing ==
    lpc = "formatted" =>
        IF tokens = <<>> THEN formatted = <<>>
        ELSE /\ Len(formatted) =
                    TokStart(tokens, Len(tokens)) + TokLen(Last(tokens)) - 1
             /\ \A i \in 1..Len(tokens) :
                    LET at == TokStart(tokens, i)
                    IN  /\ SubSeq(formatted, at, at + TokLen(tokens[i]) - 1)
                            = CodeToken_to_string(tokens[i])
                        /\ i > 1 =>
                            IF Gap(tokens, i - 1) = 1
                            THEN formatted[at - 1] = " "
                                    /\ at - 1 = TokStart(tokens, i - 1) + TokLen(tokens[i - 1])
                            ELSE at = TokStart(tokens, i - 1) + TokLen(tokens[i - 1])
                        /\ (i > 1 /\ tokens[i].kind = "Comma") => formatted[at - 1] # " "

\* `a ,a`: the space before the comma goes and one space follows the comma
C7_Witness ==
    /\ lpc = "formatted"
    /\ Contains(code, <<" ", ",">>)
    /\ \E i \in 2..(Len(tokens) - 1) :
        /\ tokens[i - 1].kind = "Item"
        /\ tokens[i].kind = "Comma"
        /\ tokens[i + 1].kind = "Item"
    /\ Contains(formatted, <<"a", ",", " ", "a">>)

----------------------------------------------------------------------------
(* C8 *)

\* a label whose first colon is followed only by a comment: `main: # entry`
IsLabelWithComment(l) ==
    LET colon_i == find(l, ":")
        comment_i == find(l, "#")
    IN  /\ colon_i >= 2
        /\ comment_i > colon_i
        /\ trim(SubSeq(l, colon_i + 1, comment_i - 1)) = <<>>
        /\ ~IsDirectiveLine(l)
        /\ ~starts_with(l, DotGlobl)

\* the label, two spaces, "# " and the trimmed comment: `main:  # entry`
LabelWithCommentLine(l) ==
    format_code(SubSeq(l, 1, find(l, ":"))) \o <<" ", " ", "#", " ">>
        \o trim(SubSeq(l, find(l, "#") + 1, Len(l)))

\* C8: in a Text section a label with only a trailing comment is not split:
\* it is one Modifier chunk and its comment is rendered on the label's line.
C8_LabelCommentNotSplit ==
    \A k \in 1..Len(raw_lines) :
        (InTextSection(k) /\ IsLabelWithComment(raw_lines[k])) =>
            /\ ChunksParsed =>
                \E s \in 1..Len(sections) : \E c \in 1..Len(sections[s].chunks.val) :
                    sections[s].chunks.val[c] = Chunk("Modifier", <<raw_lines[k]>>)
            /\ pc = "done" =>
                \E i \in 1..Len(out_lines) :
                    out_lines[i] = LabelWithCommentLine(raw_lines[k])

----------------------------------------------------------------------------
(* C9 *)

DirectiveIndices == {d \in 1..Len(raw_lines) : IsDirectiveLine(raw_lines[d])}

\* index in raw_lines of the n-th directive line
NthDirective(n) ==
    CHOOSE d \in DirectiveIndices : Cardinality({e \in DirectiveIndices : e < d}) = n - 1

\* the raw lines between the directive of section s and the next directive
RawSegment(s) ==
    SubSeq(raw_lines,
           IF s = 1 THEN 1 ELSE NthDirective(s - 1) + 1,
           IF s = Cardinality(DirectiveIndices) + 1 THEN Len(raw_lines)
           ELSE NthDirective(s) - 1)

\* the text between the first colon of l and its comment, trimmed
InstructionOf(l) ==
    LET colon_i == find(l, ":")
        comment_i == find(l, "#")
    IN  trim(SubSeq(l, colon_i + 1, IF comment_i = 0 THEN Len(l) ELSE comment_i - 1))

LabelPart(l) == SubSeq(l, 1, find(l, ":"))
RestPart(l) == SubSeq(l, find(l, ":") + 1, Len(l))

\* `label: instruction`: a colon before any '#', then an instruction that is
\* neither a label line (ending in a colon) nor a `.globl` line
IsLabelInstruction(l) ==
    /\ find(l, ":") > 0
    /\ find(l, "#") = 0 \/ find(l, ":") < find(l, "#")
    /\ ~IsDirectiveLine(l)
    /\ ~starts_with(l, DotGlobl)
    /\ InstructionOf(l) # <<>>
    /\ ~ends_with(l, ":")
    /\ ~starts_with(RestPart(l), DotGlobl)

----------------------------------------------------------------------------
(* C10 *)

\* C10: global declaration isolation: every line starting with `.globl` is
\* the line of a chunk of its own and appears in the output, followed by a
\* blank line and, unless it is the first output line, preceded by one.
C10_GlobalDeclIsolated ==
    \A k \in 1..Len(raw_lines) :
        starts_with(raw_lines[k], DotGlobl) =>
            /\ ChunksParsed =>
                \E s \in 1..Len(sections) : \E c \in 1..Len(sections[s].chunks.val) :
                    LET chunk == sections[s].chunks.val[c]
                    IN  /\ chunk.kind = "GlobDec"
                        /\ Len(chunk.lines) = 1
                        /\ starts_with(chunk.lines[1], DotGlobl)
            /\ pc = "done" =>
                \E i \in 1..(Len(out_lines) - 1) :
                    /\ starts_with(out_lines[i], DotGlobl)
                    /\ out_lines[i + 1] = <<>>
                    /\ i = 1 \/ out_lines[i - 1] = <<>>

----------------------------------------------------------------------------
(* C11 *)

\* zero-based character column of byte i of line l: the characters before it
CharCol(l, i) == Cardinality({j \in 1..(i - 1) : l[j] # Utf8Cont})

\* index of the `#` of the inline comment of a rendered code line, 0 if none
HashAt(l) == find(l, "#")

\* index of the last byte of the code of a rendered code line
CodeEnd(l) ==
    IF HashAt(l) = 0 THEN Len(l)
    ELSE SetMax({0} \cup {j \in 1..(HashAt(l) - 1) : l[j] # " "})

\* characters of the code of a rendered code line
CodeChars(l) == CharCol(l, CodeEnd(l) + 1)

Commented(b) == {n \in 1..Len(b.lines) : HashAt(b.lines[n]) # 0}

\* the longest line of block b has no comment and exceeds the longest
\* commented line by at least 10
DisparityApplies(b) ==
    /\ Commented(b) # {}
    /\ \E n \in 1..Len(b.lines) :
        /\ n \notin Commented(b)
        /\ \A m \in Commented(b) :
                CodeChars(b.lines[n]) - CodeChars(b.lines[m]) >= 10

\* C11: comment alignment: within one code block of the output the `#` of
\* every inline comment begins at the same column, and when the disparity
\* rule applies the comment of the longest commented line begins exactly 2
\* spaces after its code.
C11_CommentAlignment ==
    pc = "done" =>
        \A i \in 1..Len(blocks) :
            blocks[i].kind \in {"Code", "Data"} =>
                LET b == blocks[i]
                IN  /\ \A m, n \in Commented(b) :
                            CharCol(b.lines[m], HashAt(b.lines[m]))
                                = CharCol(b.lines[n], HashAt(b.lines[n]))
                    /\ DisparityApplies(b) =>
                        \A m \in Commented(b) :
                            (\A n \in Commented(b) :
                                CodeChars(b.lines[n]) <= CodeChars(b.lines[m])) =>
                                HashAt(b.lines[m]) - CodeEnd(b.lines[m]) - 1 = 2

----------------------------------------------------------------------------
(* C12 *)

\* the code of a raw line: the text before its first `#`
CodeOf(l) == IF find(l, "#") = 0 THEN l ELSE SubSeq(l, 1, find(l, "#") - 1)

\* c holds exactly one double quote
OneQuote(c) == Cardinality({i \in 1..Len(c) : c[i] = "\""}) = 1

\* C12: totality: format returns Ok for every input and never panics; the
\* tokeniser never takes the panic branch of code_token_from_char, and an
\* unterminated string literal is flushed as a literal token at end of input.
C12_Totality ==
    /\ pc # "panicked"
    /\ \A k \in 1..Len(raw_lines) :
        LET c == CodeOf(raw_lines[k])
            toks == tokenise_line(c)
        IN  /\ \A t \in 1..Len(toks) : toks[t] # Panicked
            /\ OneQuote(c) =>
                /\ toks # <<>>
                /\ Last(toks) = Literal(SubSeq(c, find(c, "\"") + 1, Len(c)))

----------------------------------------------------------------------------
(* C13 *)

IsCommentOnly(l) == starts_with(l, <<"#">>)

\* `# ` followed by the trimmed text after the first `#`
RenderedComment(l) == <<"#", " ">> \o trim(SubSeq(l, 2, Len(l)))

\* C13: comment-only line preservation: a line whose first non-whitespace
\* character is `#` is held whole by a Comment chunk, starts no section and
\* is no Modifier chunk, whatever colons, `#` characters or directive text it
\* holds, and it is rendered as `# ` followed by the trimmed text after its
\* first `#`.
C13_CommentOnlyPreserved ==
    /\ ChunksParsed =>
        /\ Len(sections) = 1 + Cardinality(DirectiveIndices)
        /\ \A s \in 1..Len(sections) : \A c \in 1..Len(sections[s].chunks.val) :
            LET chunk == sections[s].chunks.val[c]
            IN  (chunk.kind = "Modifier") => ~IsCommentOnly(chunk.lines[1])
        /\ \A k \in 1..Len(raw_lines) :
            IsCommentOnly(raw_lines[k]) =>
                \E s \in 1..Len(sections) : \E c \in 1..Len(sections[s].chunks.val) :
                    LET chunk == sections[s].chunks.val[c]
                    IN  /\ chunk.kind = "Comment"
                        /\ \E n \in 1..Len(chunk.lines) : chunk.lines[n] = raw_lines[k]
    /\ pc = "done" =>
        \A k \in 1..Len(raw_lines) :
            IsCommentOnly(raw_lines[k]) =>
                \E i \in 1..Len(out_lines) :
                    \/ out_lines[i] = RenderedComment(raw_lines[k])
                    \/ out_lines[i] = <<"\t">> \o RenderedComment(raw_lines[k])

\* a comment line holding a colon, a second `#` and `.data` reaches the output
C13_Witness ==
    /\ pc = "done"
    /\ \E k \in 1..Len(raw_lines) :
        /\ IsCommentOnly(raw_lines[k])
        /\ Contains(raw_lines[k], <<":">>)
        /\ Contains(raw_lines[k], DotData)
        /\ find(SubSeq(raw_lines[k], 2, Len(raw_lines[k])), "#") # 0
        /\ \E i \in 1..Len(out_lines) : out_lines[i] = RenderedComment(raw_lines[k])

----------------------------------------------------------------------------
(* C14 *)

\* indent_blocks has run
Indented == pc \in {"indented", "compiled", "done"}

\* the blocks of the chunks d <= c of section sec: a GlobDec chunk has none
ChunkBlocksUpTo(sec, c) ==
    Cardinality({d \in 1..c : sec.chunks.val[d].kind # "GlobDec"})

RECURSIVE BlocksBeforeSection(_)
BlocksBeforeSection(s) ==
    IF s = 1 THEN 0
    ELSE BlocksBeforeSection(s - 1)
            + (IF sections[s - 1].dir_line.some THEN 1 ELSE 0)
            + ChunkBlocksUpTo(sections[s - 1], Len(sections[s - 1].chunks.val))

\* index in blocks of the block of chunk c of section s
BlockIndex(s, c) ==
    BlocksBeforeSection(s)
        + (IF sections[s].dir_line.some THEN 1 ELSE 0)
        + ChunkBlocksUpTo(sections[s], c)

\* chunk c of section s comes after a Modifier chunk of the section
AfterFirstModifier(s, c) ==
    \E m \in 1..(c - 1) : sections[s].chunks.val[m].kind = "Modifier"

\* a Code chunk occurs after chunk c and before the next Modifier chunk
CodeBeforeNextModifier(s, c) ==
    LET chunks == sections[s].chunks.val
    IN  \E j \in (c + 1)..Len(chunks) :
            /\ chunks[j].kind = "Code"
            /\ \A m \in (c + 1)..(j - 1) : chunks[m].kind # "Modifier"

\* C14: comment indentation rule: in a Text section a Comment chunk after the
\* first label is indented if and only if a Code chunk occurs after it and
\* before the next Modifier chunk or the end of the section, Space and
\* GlobalDecl chunks in between being ignored.
C14_CommentIndentation ==
    Indented =>
        \A s \in 1..Len(sections) : \A c \in 1..Len(sections[s].chunks.val) :
            (/\ sections[s].dir = "Text"
             /\ sections[s].chunks.val[c].kind = "Comment"
             /\ AfterFirstModifier(s, c)) =>
                LET b == blocks[BlockIndex(s, c)]
                IN  /\ b.kind = "Comment"
                    /\ Len(b.lines) = Len(sections[s].chunks.val[c].lines)
                    /\ IF CodeBeforeNextModifier(s, c)
                       THEN AllLines(b, OneTab)
                       ELSE AllLines(b, NoTab)

\* a Comment chunk after a label, separated from the Code chunk that follows
\* it by a Space or GlobalDecl chunk, is indented
C14_Witness ==
    /\ Indented
    /\ \E s \in 1..Len(sections) : \E c \in 1..Len(sections[s].chunks.val) :
        LET chunks == sections[s].chunks.val
        IN  /\ sections[s].dir = "Text"
            /\ chunks[c].kind = "Comment"
            /\ AfterFirstModifier(s, c)
            /\ c + 2 <= Len(chunks)
            /\ chunks[c + 1].kind \in {"Space", "GlobDec"}
            /\ chunks[c + 2].kind = "Code"
            /\ AllLines(blocks[BlockIndex(s, c)], OneTab)

----------------------------------------------------------------------------
(* C15 *)

NoDoubleTab(l) == ~starts_with(l, <<"\t", "\t">>)

\* C15: indentation frame: after the Indentation Pass no line of a Data
\* section, of a Modifier chunk, of a directive, or of a chunk before the
\* first Modifier of its own Text section carries a tab, whatever labels
\* earlier Text sections hold, and no line carries more than one tab.
C15_IndentationFrame ==
    Indented =>
        /\ \A i \in 1..Len(blocks) :
            /\ AllLines(blocks[i], NoDoubleTab)
            /\ blocks[i].kind \in {"ProcedureDenoter", "SectionDenoter",
                                   "DataModifier", "Data", "Space"} =>
                    AllLines(blocks[i], NoTab)
        /\ \A s \in 1..Len(sections) : \A c \in 1..Len(sections[s].chunks.val) :
            (/\ sections[s].chunks.val[c].kind # "GlobDec"
             /\ sections[s].dir = "Data" \/ ~AfterFirstModifier(s, c)) =>
                AllLines(blocks[BlockIndex(s, c)], NoTab)

\* an earlier Text section holds a label and a later Text section holds a
\* Code chunk before any label of its own, which stays unindented
C15_Witness ==
    /\ Indented
    /\ \E s1, s2 \in 1..Len(sections) :
        /\ s1 < s2
        /\ sections[s1].dir = "Text" /\ sections[s2].dir = "Text"
        /\ \E m \in 1..Len(sections[s1].chunks.val) :
                sections[s1].chunks.val[m].kind = "Modifier"
        /\ \E c \in 1..Len(sections[s2].chunks.val) :
            /\ sections[s2].chunks.val[c].kind = "Code"
            /\ ~AfterFirstModifier(s2, c)
            /\ AllLines(blocks[BlockIndex(s2, c)], NoTab)

----------------------------------------------------------------------------
(* C16 *)

\* C16: directive separation: every `.text`/`.data` directive line of the
\* output is immediately followed by exactly one blank line and, unless it is
\* the first output line, immediately preceded by a blank line.
C16_DirectiveSeparation ==
    pc = "done" =>
        \A i \in 1..Len(out_lines) :
            IsDirectiveLine(out_lines[i]) =>
                /\ i + 1 <= Len(out_lines)
                /\ out_lines[i + 1] = <<>>
                /\ i + 2 <= Len(out_lines) => out_lines[i + 2] # <<>>
                /\ i > 1 => out_lines[i - 1] = <<>>

----------------------------------------------------------------------------
(* C17 *)

\* consume_line_blocks has run
Compiled == pc \in {"compiled", "done"}

\* the number of output lines emitted once blocks 1..i are consumed
OutLenAfter(i) ==
    Len(consume_from(SubSeq(blocks, 1, i), 1,
                     [state |-> "Preparing", out_lines |-> <<>>]).out_lines)

\* the blocks after block i that are no Space block
NonSpaceAfter(i) == {j \in (i + 1)..Len(blocks) : blocks[j].kind # "Space"}

\* C17: no blank after a label or modifier: when a Modifier is followed by a
\* Code or Comment chunk, with or without Space chunks between them, the
\* first line of that chunk is the output line right after the modifier
\* line; a Space chunk emits a blank line exactly when it follows a Comment
\* chunk (state AfterComment).
C17_NoBlankAfterModifier ==
    Compiled =>
        /\ \A i \in 1..Len(blocks) :
            (/\ blocks[i].kind \in {"ProcedureDenoter", "DataModifier"}
             /\ NonSpaceAfter(i) # {}
             /\ blocks[SetMin(NonSpaceAfter(i))].kind \in {"Code", "Data", "Comment"}) =>
                LET j == SetMin(NonSpaceAfter(i))
                    p == OutLenAfter(i)
                IN  /\ out_lines[p] = blocks[i].lines[1]
                    /\ OutLenAfter(j - 1) = p
                    /\ out_lines[p + 1] = blocks[j].lines[1]
        /\ \A i \in 1..Len(blocks) :
            blocks[i].kind = "Space" =>
                IF i > 1 /\ blocks[i - 1].kind = "Comment"
                THEN /\ OutLenAfter(i) = OutLenAfter(i - 1) + 1
                     /\ out_lines[OutLenAfter(i)] = <<>>
                ELSE OutLenAfter(i) = OutLenAfter(i - 1)

\* a label, a blank line and code: the code line follows the label directly
C17_Witness ==
    /\ Compiled
    /\ \E i \in 1..(Len(blocks) - 2) :
        /\ blocks[i].kind = "ProcedureDenoter"
        /\ blocks[i + 1].kind = "Space"
        /\ blocks[i + 2].kind = "Code"
        /\ out_lines[OutLenAfter(i)] = blocks[i].lines[1]
        /\ out_lines[OutLenAfter(i) + 1] = blocks[i + 2].lines[1]

----------------------------------------------------------------------------
(* C18 *)

\* C18: chunk maximality: the chunk list of every section starts with the
\* initial Space chunk, never has two adjacent Space chunks, two adjacent
\* Code chunks or two adjacent Comment chunks, and every Code and Comment
\* chunk holds at least one line.
C18_ChunkMaximality ==
    ChunksParsed =>
        \A s \in 1..Len(sections) :
            LET chunks == sections[s].chunks.val
            IN  /\ chunks # <<>>
                /\ chunks[1] = ChunkSpace
                /\ \A c \in 1..(Len(chunks) - 1) :
                    ~(/\ chunks[c].kind = chunks[c + 1].kind
                      /\ chunks[c].kind \in {"Space", "Code", "Comment"})
                /\ \A c \in 1..Len(chunks) :
                    chunks[c].kind \in {"Code", "Comment"} => Len(chunks[c].lines) >= 1

\* a section that starts with two blank lines followed by a code line: the
\* initial Space chunk and one Code chunk
C18_Witness ==
    /\ ChunksParsed
    /\ \E s \in 1..Len(sections) :
        /\ Len(sections[s].lines) = 3
        /\ sections[s].lines[1] = <<>>
        /\ sections[s].lines[2] = <<>>
        /\ sections[s].chunks.val = <<ChunkSpace, Chunk("Code", <<sections[s].lines[3]>>)>>

----------------------------------------------------------------------------
(* C19 *)

\* the role of a non-blank line of a section of kind dir, by the first
\* matching rule
LineRole(dir, l) ==
    LET t == trim(l)
    IN  CASE starts_with(t, DotGlobl) -> "GlobDec"
          [] ~starts_with(t, DotGlobl) /\ starts_with(t, <<"#">>) -> "Comment"
          [] ~starts_with(t, DotGlobl) /\ ~starts_with(t, <<"#">>)
                /\ dir = "Text" /\ ends_with(t, ":") -> "Modifier"
          [] ~starts_with(t, DotGlobl) /\ ~starts_with(t, <<"#">>)
                /\ dir = "Data" /\ starts_with(t, DotAlign) -> "Modifier"
          [] OTHER -> "Code"

NonBlank(lines) == SelectSeq(lines, LAMBDA l : l # <<>>)

\* the kinds of the chunks, one entry per line that the chunk stands for
RECURSIVE ChunkRoles(_, _)
ChunkRoles(chunks, c) ==
    IF c > Len(chunks) THEN <<>>
    ELSE (CASE chunks[c].kind = "Space" -> <<>>
            [] chunks[c].kind = "GlobDec" -> <<"GlobDec">>
            [] OTHER -> [n \in 1..Len(chunks[c].lines) |-> chunks[c].kind])
         \o ChunkRoles(chunks, c + 1)

\* C19: chunk classification precedence: every non-blank line of a section
\* is classified by the first matching rule in the order `.globl` line,
\* comment-only line, section-specific modifier (a line ending with `:` in
\* Text, a line starting with `.align` in Data), code.
C19_ClassificationPrecedence ==
    ChunksParsed =>
        \A s \in 1..Len(sections) :
            LET ls == NonBlank(sections[s].lines)
            IN  ChunkRoles(sections[s].chunks.val, 1)
                    = [n \in 1..Len(ls) |-> LineRole(sections[s].dir, ls[n])]

----------------------------------------------------------------------------
(* C20 *)

\* the longest code of the rendered lines ns of block b, 0 if there is none,
\* in the bytes that String::len counts
MaxCodeLength(b, ns) ==
    IF ns = {} THEN 0 ELSE SetMax({CodeEnd(b.lines[n]) : n \in ns})

MaxAll(b) == MaxCodeLength(b, 1..Len(b.lines))
MaxCommented(b) == MaxCodeLength(b, Commented(b))

\* C20: comment column value: in a formatted code block the comment column,
\* the code length of a commented line plus its gap, is maxCommented + 2
\* when maxAll - maxCommented >= 10 and maxAll + 2 otherwise, maxAll being
\* the longest code length of the block and maxCommented the longest over
\* the lines that carry a comment.
C20_CommentColumn ==
    pc = "formatted" =>
        \A i \in 1..Len(blocks) :
            blocks[i].kind \in {"Code", "Data"} =>
                LET b == blocks[i]
                    column == IF MaxAll(b) - MaxCommented(b) >= 10
                              THEN MaxCommented(b) + 2
                              ELSE MaxAll(b) + 2
                IN  \A n \in Commented(b) : HashAt(b.lines[n]) - 1 = column

\* a block in which the difference is exactly 10: the column is
\* maxCommented + 2
C20_Witness ==
    /\ pc = "formatted"
    /\ \E i \in 1..Len(blocks) :
        /\ blocks[i].kind \in {"Code", "Data"}
        /\ Commented(blocks[i]) # {}
        /\ MaxAll(blocks[i]) - MaxCommented(blocks[i]) = 10
        /\ \A n \in Commented(blocks[i]) :
                HashAt(blocks[i].lines[n]) - 1 = MaxCommented(blocks[i]) + 2

----------------------------------------------------------------------------
(* C21 *)

\* the step of the tokeniser on the next character while a literal is open
LiteralStep ==
    LET c == Head(rest)
    IN  IF c = "\"" /\ (state.cur = <<>> \/ Last(state.cur) # "\\")
        THEN /\ state' = Waiting
             /\ tokens' = Append(tokens, Literal(state.cur))
        ELSE /\ state' = StringLiteral(Append(state.cur, c))
             /\ tokens' = tokens

\* C21: string literal tokenisation: once a `"` opens a literal every
\* following character is accumulated into that literal until a `"` whose
\* preceding accumulated character is not a backslash, which closes it; a
\* `"` met while an item is in progress closes the item and opens a literal;
\* end of input flushes the pending literal.
C21_StringLiteralTokenisation ==
    [][/\ (lpc = "chars" /\ rest # <<>> /\ state.st = "StringLiteral") => LiteralStep
       /\ (lpc = "chars" /\ rest # <<>> /\ state.st = "Token" /\ Head(rest) = "\"") =>
            /\ state' = StringLiteral(<<>>)
            /\ tokens' = Append(tokens, Item(state.cur))
       /\ (lpc = "chars" /\ rest # <<>> /\ state.st = "Waiting" /\ Head(rest) = "\"") =>
            /\ state' = StringLiteral(<<>>)
            /\ tokens' = tokens
       /\ (lpc = "chars" /\ rest = <<>> /\ state.st = "StringLiteral") =>
            tokens' = Append(tokens, Literal(state.cur))]_vars

\* an open literal that holds an escaped quote followed by punctuation or a
\* space
C21_Witness ==
    /\ lpc = "chars"
    /\ state.st = "StringLiteral"
    /\ Len(state.cur) = 3
    /\ state.cur[1] = "\\"
    /\ state.cur[2] = "\""
    /\ state.cur[3] \in Punctuation \cup {" "}

----------------------------------------------------------------------------
(* C22 *)

\* the non-blank logical lines of the input in order: per section its
\* directive line, then its lines after inline label splitting
RECURSIVE LogicalLinesFrom(_)
LogicalLinesFrom(s) ==
    IF s > Len(sections) THEN <<>>
    ELSE (IF s = 1 THEN <<>> ELSE <<raw_lines[NthDirective(s - 1)]>>)
            \o NonBlank(sections[s].lines)
            \o LogicalLinesFrom(s + 1)

\* l without its whitespace
Squeeze(l) == SelectSeq(l, LAMBDA c : ~is_whitespace(c))

\* C22: line preservation: the non-blank output lines are, one for one and in
\* order, the non-blank logical lines of the input (trimmed, labels split),
\* changed in their whitespace only; no line is dropped, duplicated or
\* reordered.
C22_LinePreservation ==
    pc = "done" =>
        LET ins == LogicalLinesFrom(1)
            outs == NonBlank(out_lines)
        IN  /\ Len(outs) = Len(ins)
            /\ \A n \in 1..Len(ins) : Squeeze(outs[n]) = Squeeze(ins[n])

----------------------------------------------------------------------------
(* C23 *)

\* the bytes between the code and the `#` of a rendered, commented code line
GapOf(l) == SubSeq(l, CodeEnd(l) + 1, HashAt(l) - 1)

\* C23: comment gap lower bound: for every code block and every line of it
\* that carries a comment the computed comment column is at least the line's
\* code length plus 2, so `comment_index - code.len()` does not underflow,
\* and in the formatted block the comment stands at least 2 spaces after its
\* code.
C23_CommentGapLowerBound ==
    /\ pc = "blocks" =>
        \A i \in 1..Len(blocks) :
            blocks[i].kind \in {"Code", "Data"} =>
                LET block == code_block_pairs(blocks[i].lines)
                IN  /\ ~format_code_block_panics(blocks[i].lines)
                    /\ \A n \in 1..Len(block) :
                        block[n][2] # <<>> =>
                            comment_start_index(block) >= Len(block[n][1]) + 2
    /\ pc = "formatted" =>
        \A i \in 1..Len(blocks) :
            blocks[i].kind \in {"Code", "Data"} =>
                \A n \in Commented(blocks[i]) :
                    LET l == blocks[i].lines[n]
                    IN  /\ Len(GapOf(l)) >= 2
                        /\ \A g \in 1..Len(GapOf(l)) : GapOf(l)[g] = " "

\* the disparity case: beside a long line without comment, the longest
\* commented line gets a gap of exactly 2 and a shorter one a wider gap
C23_Witness ==
    /\ pc = "formatted"
    /\ \E i \in 1..Len(blocks) :
        /\ blocks[i].kind \in {"Code", "Data"}
        /\ MaxAll(blocks[i]) - MaxCommented(blocks[i]) >= 10
        /\ \E m, n \in Commented(blocks[i]) :
            /\ Len(GapOf(blocks[i].lines[m])) = 2
            /\ Len(GapOf(blocks[i].lines[n])) > 2

----------------------------------------------------------------------------
(* C24 *)

\* state and output of consume_line_blocks once blocks 1..i are consumed
ConsumedPrefix(i) ==
    consume_from(SubSeq(blocks, 1, i), 1, [state |-> "Preparing", out_lines |-> <<>>])

\* the state invariant of the compiler after every prefix of the blocks
CompilerStateInvariant ==
    \A i \in 0..Len(blocks) :
        LET acc == ConsumedPrefix(i)
            out == acc.out_lines
        IN  /\ out = SubSeq(out_lines, 1, Len(out))
            /\ acc.state = "Preparing" => (out = <<>> \/ Last(out) = <<>>)
            /\ acc.state \in {"AfterComment", "AfterProcedure", "AfterDataModifer"} =>
                    (out # <<>> /\ Last(out) # <<>>)

\* C24: compiler state invariant: after any prefix of the blocks the state
\* Preparing implies that the output so far is empty or ends with a blank
\* line, and the states AfterComment, AfterProcedure and AfterDataModifer
\* imply that it ends with a non-blank line; the output never begins with a
\* blank line.
C24_CompilerStateInvariant ==
    Compiled =>
        /\ CompilerStateInvariant
        /\ out_lines # <<>> => out_lines[1] # <<>>

====
